---- MODULE Spec2Model ----
(***************************************************************************)
(* A model of thoth: the tool-call loop of main (src/main.go), the         *)
(* shell-command tool and the multi-file reader                            *)
(* (src/tools/run_shell_command.go).                                       *)
(*                                                                         *)
(* Three specifications share the module:                                  *)
(*   Spec        the input loop and toolCallLoop of main                   *)
(*   SpecShell   one call of RunShellCommandTool.Execute, with its wait    *)
(*               goroutine, the spawned process group and the caller's     *)
(*               context                                                   *)
(*   SpecReader  one call of ReadManyFilesTool.Execute                     *)
(***************************************************************************)
EXTENDS Integers, Sequences, FiniteSets, TLC

\* ------------------------------------------------------------------------
\* Go values
\* ------------------------------------------------------------------------

\* A nil-able Go value is a sequence of length 0 (nil) or 1.
None == << >>

Some(x) == << x >>

\* A value of type `any` carries its dynamic type.
AnyString(s) == [t |-> "string", v |-> s]

AnyNumber(n) == [t |-> "number", v |-> n]

AnyArray(a) == [t |-> "array", v |-> a]

\* The empty map[string]any.
EmptyArgs == [k \in {} |-> AnyString("")]

\* args[key].(string): the comma-ok type assertion on a map element.
IsString(args, key) == key \in DOMAIN args /\ args[key].t = "string"

\* args[key].([]any)
IsArray(args, key) == key \in DOMAIN args /\ args[key].t = "array"

\* The value of `s, _ := args[key].(string)`: the zero value when not ok.
StringOrZero(args, key) == IF IsString(args, key) THEN args[key].v ELSE ""

\* What a Go call returns: (map[string]any, error).
RetOk(result) == [result |-> Some(result), err |-> None]

RetErr(msg) == [result |-> None, err |-> Some(msg)]

\* Nothing has been returned yet.
NotReturned == [result |-> None, err |-> None]

\* context.Canceled.Error()
ctxErr == "context canceled"

\* ------------------------------------------------------------------------
\* RunShellCommandTool: status decoding (pure part)
\* ------------------------------------------------------------------------

\* syscall.WaitStatus on linux: the low 7 bits hold the terminating signal
\* (0: exited, 127: stopped), bit 7 the core flag, bits 8..15 the exit code.
Exited(w) == (w % 128) = 0

Signaled(w) == (w % 128) # 127 /\ (w % 128) # 0

ExitStatus(w) == IF ~Exited(w) THEN -1 ELSE (w \div 256) % 256

Signal(w) == IF ~Signaled(w) THEN -1 ELSE w % 128

\* What cmd.Wait() returns: nil, an *exec.ExitError holding the wait status,
\* or another error (its message).
WaitNil == [kind |-> "nil"]

ExitError(w) == [kind |-> "ExitError", status |-> w]

OtherError(msg) == [kind |-> "other", msg |-> msg]

\* syscall.Signal.String(), for the signals of the model.
SignalName(sig) ==
    CASE sig = 9 -> "killed"
      [] sig = 15 -> "terminated"
      [] OTHER -> "signal " \o ToString(sig)

\* exec.ExitError.Error() is ProcessState.String().
ExitErrorText(w) ==
    IF Exited(w) THEN "exit status " \o ToString(ExitStatus(w))
    ELSE "signal: " \o SignalName(Signal(w))
         \o (IF (w \div 128) % 2 = 1 THEN " (core dumped)" ELSE "")

\* DecodeStatus with the shell's convention for a signalled process, exit
\* code 128 + signal, instead of the sentinel.
DecodeStatus_ShellExitCode(err) ==
    IF err.kind # "nil"
    THEN IF err.kind = "ExitError"
         THEN [exitCode |-> IF Signaled(err.status) THEN 128 + Signal(err.status)
                            ELSE ExitStatus(err.status),
               signal   |-> IF Signaled(err.status) THEN Signal(err.status) ELSE -1,
               cmdErr   |-> ExitErrorText(err.status)]
         ELSE [exitCode |-> -1, signal |-> -1, cmdErr |-> err.msg]
    ELSE [exitCode |-> 0, signal |-> -1, cmdErr |-> "(none)"]

\* DecodeStatus without the else branch that records an error which is no
\* ExitError.
DecodeStatus_DropsOtherError(err) ==
    IF err.kind = "ExitError"
    THEN [exitCode |-> ExitStatus(err.status),
          signal   |-> IF Signaled(err.status) THEN Signal(err.status) ELSE -1,
          cmdErr   |-> ExitErrorText(err.status)]
    ELSE IF err.kind = "nil"
    THEN [exitCode |-> 0, signal |-> -1, cmdErr |-> "(none)"]
    ELSE [exitCode |-> -1, signal |-> -1, cmdErr |-> "(none)"]

\* The `case err := <-done` branch: exitCode, signal and cmdErr start as
\* -1, -1, "(none)" and are overwritten from the wait error.
DecodeStatus(err) ==
    IF err.kind # "nil"
    THEN IF err.kind = "ExitError"
         THEN [exitCode |-> ExitStatus(err.status),
               signal   |-> IF Signaled(err.status) THEN Signal(err.status) ELSE -1,
               cmdErr   |-> ExitErrorText(err.status)]
         ELSE [exitCode |-> -1, signal |-> -1, cmdErr |-> err.msg]
    ELSE [exitCode |-> 0, signal |-> -1, cmdErr |-> "(none)"]

\* The result map of the success path.
ShellResult(cmdStr, dir, stdout, stderr, dec, pgid) ==
    ("Command" :> cmdStr) @@ ("Directory" :> dir) @@ ("Stdout" :> stdout)
    @@ ("Stderr" :> stderr) @@ ("Error" :> dec.cmdErr)
    @@ ("Exit Code" :> dec.exitCode) @@ ("Signal" :> dec.signal)
    @@ ("Background PIDs" :> << >>) @@ ("Process Group PGID" :> pgid)

\* ------------------------------------------------------------------------
\* ReadManyFilesTool: paths, globbing, markers (pure part)
\* ------------------------------------------------------------------------

\* t.ProjectRoot
ProjectRoot == "/p"

\* The i-th character of a string, and the string after its first one.
Char(s, i) == SubSeq(s, i, i)

Rest(s) == SubSeq(s, 2, Len(s))

\* strings.ContainsAny(s, chars), chars given as a set of characters.
ContainsAny(s, chars) == \E i \in 1..Len(s) : Char(s, i) \in chars

\* The elements of a path between its separators.
RECURSIVE SplitFrom(_, _, _)
SplitFrom(s, i, cur) ==
    IF i > Len(s) THEN << cur >>
    ELSE IF Char(s, i) = "/" THEN << cur >> \o SplitFrom(s, i + 1, "")
    ELSE SplitFrom(s, i + 1, cur \o Char(s, i))

\* filepath.Clean of a rooted path, on its elements: empty elements and "."
\* go away, ".." takes the element before it away.
RECURSIVE CleanElems(_, _)
CleanElems(es, acc) ==
    IF es = << >> THEN acc
    ELSE LET e == Head(es)
         IN IF e = "" \/ e = "." THEN CleanElems(Tail(es), acc)
            ELSE IF e = ".."
            THEN CleanElems(Tail(es),
                            IF acc = << >> THEN acc
                            ELSE SubSeq(acc, 1, Len(acc) - 1))
            ELSE CleanElems(Tail(es), Append(acc, e))

RECURSIVE Rooted(_)
Rooted(es) == IF es = << >> THEN "" ELSE "/" \o Head(es) \o Rooted(Tail(es))

Elems(path) == CleanElems(SplitFrom(path, 1, ""), << >>)

\* filepath.Join(root, pattern), root being absolute.
Join(root, pattern) ==
    LET es == Elems(root \o "/" \o pattern)
    IN IF es = << >> THEN "/" ELSE Rooted(es)

\* A pattern the model uses is malformed when a "[" has no closing "]".
BadPattern(pat) ==
    \E i \in 1..Len(pat) :
        /\ Char(pat, i) = "["
        /\ ~ \E j \in (i + 2)..Len(pat) : Char(pat, j) = "]"

\* filepath.Match of one path element, for patterns of literals, "*" and "?".
RECURSIVE Match(_, _)
Match(pat, name) ==
    IF pat = "" THEN name = ""
    ELSE IF Char(pat, 1) = "*"
    THEN Match(Rest(pat), name) \/ (name # "" /\ Match(pat, Rest(name)))
    ELSE IF Char(pat, 1) = "?"
    THEN name # "" /\ Match(Rest(pat), Rest(name))
    ELSE name # "" /\ Char(name, 1) = Char(pat, 1) /\ Match(Rest(pat), Rest(name))

\* Every path a file system of the model can hold, in lexical order.
AllPaths == << "/p/a", "/p/b" >>

\* filepath.Glob(absPattern): the existing paths that match element by
\* element, in lexical order; ErrBadPattern for a malformed pattern.
Glob(absPattern, fsys) ==
    IF BadPattern(absPattern)
    THEN [err |-> Some("syntax error in pattern"), matches |-> << >>]
    ELSE LET pe == Elems(absPattern)
             Hit(path) ==
                 /\ fsys[path].kind # "absent"
                 /\ LET ne == Elems(path)
                    IN /\ Len(ne) = Len(pe)
                       /\ \A i \in 1..Len(pe) : Match(pe[i], ne[i])
         IN [err |-> None, matches |-> SelectSeq(AllPaths, Hit)]

\* fmt's %v of a path entry.
FormatV(any) == IF any.t = "string" THEN any.v ELSE ToString(any.v)

\* Lines 216-234: the entries of `paths` are resolved in order; the first
\* entry that is no string or a malformed pattern ends the call.
RECURSIVE ResolvePaths(_, _, _)
ResolvePaths(paths, filePaths, fsys) ==
    IF paths = << >> THEN [err |-> None, filePaths |-> filePaths]
    ELSE LET p == Head(paths)
         IN IF p.t # "string"
            THEN [err |-> Some("invalid path pattern: " \o FormatV(p)),
                  filePaths |-> << >>]
            ELSE LET pattern == p.v
                     absPattern == Join(ProjectRoot, pattern)
                 IN IF ContainsAny(pattern, {"*", "?", "[", "]"})
                    THEN LET g == Glob(absPattern, fsys)
                         IN IF g.err # None
                            THEN [err |-> Some("error globbing pattern " \o pattern
                                               \o ": " \o g.err[1]),
                                  filePaths |-> << >>]
                            ELSE ResolvePaths(Tail(paths),
                                              filePaths \o g.matches, fsys)
                    ELSE ResolvePaths(Tail(paths),
                                      Append(filePaths, absPattern), fsys)

\* Unique that compares a path with the last kept one only.
RECURSIVE Unique_AdjacentOnly(_, _)
Unique_AdjacentOnly(filePaths, acc) ==
    IF filePaths = << >> THEN acc
    ELSE LET p == Head(filePaths)
         IN Unique_AdjacentOnly(Tail(filePaths),
                                IF acc # << >> /\ acc[Len(acc)] = p THEN acc
                                ELSE Append(acc, p))

\* Lines 236-244: the first occurrence of every path, in order.
RECURSIVE Unique(_, _)
Unique(filePaths, acc) ==
    IF filePaths = << >> THEN acc
    ELSE LET p == Head(filePaths)
         IN Unique(Tail(filePaths),
                   IF \E i \in 1..Len(acc) : acc[i] = p THEN acc
                   ELSE Append(acc, p))

\* What a path of a file system can be. A file holds bytes.
Absent == [kind |-> "absent", data |-> << >>]

Dir == [kind |-> "dir", data |-> << >>]

StatErr == [kind |-> "staterr", data |-> << >>]

Unreadable == [kind |-> "unreadable", data |-> << >>]

File(data) == [kind |-> "file", data |-> data]

\* bytes.ContainsRune(data, 0)
ContainsNul(data) == \E i \in 1..Len(data) : data[i] = 0

\* string(data), for the bytes the model's files hold.
RECURSIVE BytesToString(_)
BytesToString(data) ==
    IF data = << >> THEN ""
    ELSE (CASE Head(data) = 104 -> "h"
            [] Head(data) = 105 -> "i"
            [] OTHER -> "?") \o BytesToString(Tail(data))

\* Lines 254-279: what the loop writes to contentBuilder for one path.
ItemText(filePath, fsys) ==
    LET e == IF filePath \in DOMAIN fsys THEN fsys[filePath] ELSE Absent
    IN IF e.kind = "absent" THEN "---" \o filePath \o " (Not Found)---\n"
       ELSE IF e.kind = "staterr"
       THEN "---" \o filePath \o " (Error: stat " \o filePath
            \o ": permission denied)---\n"
       ELSE IF e.kind = "dir" THEN "---" \o filePath \o " (Directory)---\n"
       ELSE IF e.kind = "unreadable"
       THEN "---" \o filePath \o " (Error reading: open " \o filePath
            \o ": permission denied)---\n"
       ELSE IF ContainsNul(e.data)
       THEN "---" \o filePath \o " (Binary File, content not included)---\n"
       ELSE "---" \o filePath \o " --- " \o BytesToString(e.data) \o "\n"

\* ------------------------------------------------------------------------
\* State
\* ------------------------------------------------------------------------

VARIABLES
    \* -- the caller's context (shared by the two tool specifications)
    ctxDone,        \* ctx.Done() is closed
    \* -- RunShellCommandTool.Execute
    shPc,           \* where Execute is: idle, select, parked (blocked in the
                    \* select), woken (on `done`), getpgid, kill, recv, returned
    shArgs,         \* args of the call
    proc,           \* the spawned bash, leader of its process group
    bg,             \* a background member of the group: none, holding (it holds
                    \* the output pipes), detached, dead
    watch,          \* the goroutine exec.CommandContext starts: idle,
                    \* interrupted (it killed the process), stopped
    waiter,         \* the goroutine around cmd.Wait(): none, waiting, copying, sent
    waitErr,        \* what cmd.Wait() is going to return
    done,           \* the channel `done` (capacity 1)
    stdoutBuf,      \* bytes captured from the group's stdout
    stderrBuf,      \* bytes captured from the group's stderr
    shRet,          \* what Execute returned
    events,         \* what the cancellation path did, in order
    cancelInFlight, \* ctx was cancelled while Execute waited in the select
                    \* and bash was still running
    \* -- ReadManyFilesTool.Execute
    rdPc,           \* where Execute is: idle, check, read, returned
    rdArgs,         \* args of the call
    fs,             \* the file system below the project root
    uniqueFilePaths,
    idx,            \* how many of uniqueFilePaths the loop has processed
    contentBuilder,
    rdRet,          \* what Execute returned
    statted,        \* the paths os.Stat was called on, in order
    \* -- main
    pc,             \* where main is: read, awaitResp, parts, exec, exit
    toolRegistry,   \* map from tool name to the registered Tool
    resp,           \* the response being processed
    cursor,         \* how many parts of resp the range loops have processed
    toolResponses,
    modelTextResponse,
    inflight,       \* the message SendMessage is sending, << >> when none
    running,        \* the Execute call in flight, None when none
    round,          \* tool-response batches sent in this turn
    execLog,        \* the Execute calls made for resp, in order, each with
                    \* what it returned
    execTotal,      \* Execute calls made in this turn
    callTotal,      \* calls of registered tools received in this turn
    output,         \* lines printed to stdout in this turn
    lastEnd         \* how the last finished turn ended

shellVars == << shPc, shArgs, proc, bg, watch, waiter, waitErr, done,
                stdoutBuf, stderrBuf, shRet, events, cancelInFlight >>

readerVars == << rdPc, rdArgs, fs, uniqueFilePaths, idx, contentBuilder,
                 rdRet, statted >>

orchVars == << pc, toolRegistry, resp, cursor, toolResponses,
               modelTextResponse, inflight, running, round, execLog,
               execTotal, callTotal, output, lastEnd >>

vars == << ctxDone, shellVars, readerVars, orchVars >>

\* ------------------------------------------------------------------------
\* RunShellCommandTool.Execute and its environment
\* ------------------------------------------------------------------------

\* Bounds of the shell environment.
MaxExitCode == 2

\* The signal Execute sends to the group, and the one os/exec sends.
SIGTERM == 15

SIGKILL == 9

\* The pid of the spawned bash.
Pid == 4711

\* Arguments the model may pass.
ShellArgs ==
    { EmptyArgs,
      [command |-> AnyNumber(7)],
      [command |-> AnyString("ls")],
      [command |-> AnyString("ls"), directory |-> AnyString("sub")],
      [command |-> AnyString("ls"), directory |-> AnyString("")],
      [command |-> AnyString("ls"), directory |-> AnyNumber(7)] }

\* The wait statuses a command can end with by itself: an exit code, or a
\* signal it raised against itself.
OwnStatuses == { c * 256 : c \in 0..MaxExitCode } \cup { SIGKILL, SIGTERM }

ProcNone == [st |-> "none", status |-> 0]

\* syscall.Getpgid(cmd.Process.Pid): the pid names a process until it is
\* reaped; Setpgid made the process the leader of its own group.
Getpgid(p) == IF p.st \in {"running", "zombie"} THEN Some(Pid) ELSE None

\* cmd.Wait() after Process.Wait() returned status w: an ExitError unless the
\* status is success; on success the watcher's error, if it interrupted.
WaitResult(w, wt) ==
    IF w # 0 THEN ExitError(w)
    ELSE IF wt = "interrupted" THEN OtherError(ctxErr)
    ELSE WaitNil

\* ShellEnter starting bash before it looks at `command`.
ShellEnter_StartsFirst ==
    /\ shPc = "idle"
    /\ IF ~IsString(shArgs, "command")
       THEN /\ shRet' = RetErr("missing or invalid 'command' argument")
            /\ shPc' = "returned"
            /\ proc' = [st |-> "running", status |-> 0]
            /\ waiter' = "waiting"
       ELSE /\ proc' = [st |-> "running", status |-> 0]
            /\ waiter' = "waiting"
            /\ shPc' = "select"
            /\ UNCHANGED shRet
    /\ UNCHANGED << ctxDone, shArgs, bg, watch, waitErr, done, stdoutBuf,
                    stderrBuf, events, cancelInFlight >>
    /\ UNCHANGED << readerVars, orchVars >>

\* Lines 57-88: validation, exec.CommandContext, Start, the wait goroutine.
\* Start fails when ctx is already done, and may fail for other reasons.
ShellEnter ==
    /\ shPc = "idle"
    /\ IF ~IsString(shArgs, "command")
       THEN /\ shRet' = RetErr("missing or invalid 'command' argument")
            /\ shPc' = "returned"
            /\ UNCHANGED << proc, waiter >>
       ELSE \E startErr \in (IF ctxDone THEN {Some(ctxErr)}
                             ELSE {None, Some("chdir: no such file or directory")}) :
              IF startErr # None
              THEN /\ shRet' = RetErr("failed to start command: " \o startErr[1])
                   /\ shPc' = "returned"
                   /\ UNCHANGED << proc, waiter >>
              ELSE /\ proc' = [st |-> "running", status |-> 0]
                   /\ waiter' = "waiting"
                   /\ shPc' = "select"
                   /\ UNCHANGED shRet
    /\ UNCHANGED << ctxDone, shArgs, bg, watch, waitErr, done, stdoutBuf,
                    stderrBuf, events, cancelInFlight >>
    /\ UNCHANGED << readerVars, orchVars >>

\* The caller cancels ctx. An Execute blocked in the select is woken on
\* `case <-ctx.Done()`.
CtxCancel ==
    /\ ~ctxDone
    /\ shPc # "returned"
    /\ ctxDone' = TRUE
    /\ cancelInFlight' = /\ shPc \in {"select", "parked"}
                         /\ proc.st = "running"
                         /\ done = << >>
    /\ shPc' = IF shPc = "parked" THEN "getpgid" ELSE shPc
    /\ UNCHANGED << shArgs, proc, bg, watch, waiter, waitErr, done,
                    stdoutBuf, stderrBuf, shRet, events >>
    /\ UNCHANGED << readerVars, orchVars >>

\* The command writes to its stdout or stderr.
ProcWrite ==
    /\ proc.st = "running"
    /\ \/ stdoutBuf = "" /\ stdoutBuf' = "hello\n" /\ UNCHANGED stderrBuf
       \/ stderrBuf = "" /\ stderrBuf' = "oops\n" /\ UNCHANGED stdoutBuf
    /\ UNCHANGED << ctxDone, shPc, shArgs, proc, bg, watch, waiter, waitErr,
                    done, shRet, events, cancelInFlight >>
    /\ UNCHANGED << readerVars, orchVars >>

\* The command starts a background process with `&`; it inherits the
\* output pipes unless the command redirects them.
ProcFork ==
    /\ proc.st = "running"
    /\ bg = "none"
    /\ bg' \in {"holding", "detached"}
    /\ UNCHANGED << ctxDone, shPc, shArgs, proc, watch, waiter, waitErr, done,
                    stdoutBuf, stderrBuf, shRet, events, cancelInFlight >>
    /\ UNCHANGED << readerVars, orchVars >>

\* The background process ends by itself.
BgExit ==
    /\ bg \in {"holding", "detached"}
    /\ bg' = "dead"
    /\ UNCHANGED << ctxDone, shPc, shArgs, proc, watch, waiter, waitErr, done,
                    stdoutBuf, stderrBuf, shRet, events, cancelInFlight >>
    /\ UNCHANGED << readerVars, orchVars >>

\* bash ends by itself.
ProcExit ==
    /\ proc.st = "running"
    /\ \E w \in OwnStatuses : proc' = [st |-> "zombie", status |-> w]
    /\ UNCHANGED << ctxDone, shPc, shArgs, bg, watch, waiter, waitErr, done,
                    stdoutBuf, stderrBuf, shRet, events, cancelInFlight >>
    /\ UNCHANGED << readerVars, orchVars >>

\* exec.CommandContext: once ctx is done the watcher kills the process
\* (SIGKILL to bash alone), unless Wait has already collected it.
WatchCtx ==
    /\ ctxDone
    /\ watch = "idle"
    /\ proc.st \in {"running", "zombie"}
    /\ watch' = "interrupted"
    /\ proc' = IF proc.st = "running" THEN [st |-> "zombie", status |-> SIGKILL]
               ELSE proc
    /\ UNCHANGED << ctxDone, shPc, shArgs, bg, waiter, waitErr, done,
                    stdoutBuf, stderrBuf, shRet, events, cancelInFlight >>
    /\ UNCHANGED << readerVars, orchVars >>

\* cmd.Wait(), first half: Process.Wait() reaps bash and the watcher's
\* result is collected.
WaitReap ==
    /\ waiter = "waiting"
    /\ proc.st = "zombie"
    /\ proc' = [proc EXCEPT !.st = "reaped"]
    /\ waitErr' = WaitResult(proc.status, watch)
    /\ watch' = IF watch = "idle" THEN "stopped" ELSE watch
    /\ waiter' = "copying"
    /\ UNCHANGED << ctxDone, shPc, shArgs, bg, done, stdoutBuf, stderrBuf,
                    shRet, events, cancelInFlight >>
    /\ UNCHANGED << readerVars, orchVars >>

\* cmd.Wait(), second half: the copying goroutines end when every holder of
\* the output pipes has closed them; then `done <- cmd.Wait()`. An Execute
\* blocked in the select is woken on `case err := <-done`.
WaitSend ==
    /\ waiter = "copying"
    /\ bg # "holding"
    /\ done' = << waitErr >>
    /\ waiter' = "sent"
    /\ shPc' = IF shPc = "parked" THEN "woken" ELSE shPc
    /\ UNCHANGED << ctxDone, shArgs, proc, bg, watch, waitErr,
                    stdoutBuf, stderrBuf, shRet, events, cancelInFlight >>
    /\ UNCHANGED << readerVars, orchVars >>

\* Line 94: no case of the select is ready and Execute blocks in it.
SelectPark ==
    /\ shPc = "select"
    /\ ~ctxDone
    /\ done = << >>
    /\ shPc' = "parked"
    /\ UNCHANGED << ctxDone, shArgs, proc, bg, watch, waiter, waitErr, done,
                    stdoutBuf, stderrBuf, shRet, events, cancelInFlight >>
    /\ UNCHANGED << readerVars, orchVars >>

\* Lines 94-95: Execute reaches the select with ctx done and takes
\* `case <-ctx.Done()`; when `done` holds a value too, either case may be
\* taken.
SelectCtxDone ==
    /\ shPc = "select"
    /\ ctxDone
    /\ shPc' = "getpgid"
    /\ UNCHANGED << ctxDone, shArgs, proc, bg, watch, waiter, waitErr, done,
                    stdoutBuf, stderrBuf, shRet, events, cancelInFlight >>
    /\ UNCHANGED << readerVars, orchVars >>

\* Lines 103-141: the select takes `case err := <-done`; the status is
\* decoded, the group id is asked for again and the result map returned.
SelectDone ==
    /\ \/ shPc = "select" /\ done # << >>
       \/ shPc = "woken"
    /\ done' = << >>
    /\ LET pg == Getpgid(proc)
       IN shRet' = RetOk(ShellResult(shArgs.command.v,
                                     StringOrZero(shArgs, "directory"),
                                     stdoutBuf, stderrBuf,
                                     DecodeStatus(done[1]),
                                     IF pg # None THEN pg[1] ELSE -1))
    /\ shPc' = "returned"
    /\ UNCHANGED << ctxDone, shArgs, proc, bg, watch, waiter, waitErr,
                    stdoutBuf, stderrBuf, events, cancelInFlight >>
    /\ UNCHANGED << readerVars, orchVars >>

\* Lines 97-98: pgid, err := syscall.Getpgid(cmd.Process.Pid).
CancelGetpgid ==
    /\ shPc = "getpgid"
    /\ shPc' = IF Getpgid(proc) # None THEN "kill" ELSE "recv"
    /\ UNCHANGED << ctxDone, shArgs, proc, bg, watch, waiter, waitErr, done,
                    stdoutBuf, stderrBuf, shRet, events, cancelInFlight >>
    /\ UNCHANGED << readerVars, orchVars >>

\* Line 99: syscall.Kill(-pgid, SIGTERM). Every living member of the group
\* gets the signal; a member dies of it or handles it.
CancelKill ==
    /\ shPc = "kill"
    /\ events' = Append(events, "kill")
    /\ \E dies \in BOOLEAN :
         proc' = IF proc.st = "running" /\ dies
                 THEN [st |-> "zombie", status |-> SIGTERM]
                 ELSE proc
    /\ \E dies \in BOOLEAN :
         bg' = IF bg \in {"holding", "detached"} /\ dies THEN "dead" ELSE bg
    /\ shPc' = "recv"
    /\ UNCHANGED << ctxDone, shArgs, watch, waiter, waitErr, done,
                    stdoutBuf, stderrBuf, shRet, cancelInFlight >>
    /\ UNCHANGED << readerVars, orchVars >>

\* Lines 101-102: <-done, then return nil, ctx.Err().
CancelRecv ==
    /\ shPc = "recv"
    /\ done # << >>
    /\ done' = << >>
    /\ events' = events \o << "recv", "return" >>
    /\ shRet' = RetErr(ctxErr)
    /\ shPc' = "returned"
    /\ UNCHANGED << ctxDone, shArgs, proc, bg, watch, waiter, waitErr,
                    stdoutBuf, stderrBuf, cancelInFlight >>
    /\ UNCHANGED << readerVars, orchVars >>

\* ------------------------------------------------------------------------
\* ReadManyFilesTool.Execute and its environment
\* ------------------------------------------------------------------------

\* The longest `paths` array the model passes.
MaxPaths == 2

PathEntries ==
    { AnyString("a"), AnyString("./a"), AnyString("b"), AnyString("*"),
      AnyString("["), AnyNumber(7) }

PathArrays == UNION { [1..n -> PathEntries] : n \in 0..MaxPaths }

ReaderArgs ==
    { EmptyArgs, [paths |-> AnyString("a")] }
    \cup { [paths |-> AnyArray(a)] : a \in PathArrays }

\* What a path can be: nothing, a directory, something Stat fails on, a file
\* that cannot be read, a text file ("hi"), a file with a null byte.
EntryKinds ==
    { Absent, Dir, StatErr, Unreadable, File(<< 104, 105 >>), File(<< 104, 0 >>) }

FileSystems == [ { AllPaths[i] : i \in 1..Len(AllPaths) } -> EntryKinds ]

\* Lines 210-244: validation, resolution of the entries, deduplication.
ReaderEnter ==
    /\ rdPc = "idle"
    /\ IF ~IsArray(rdArgs, "paths")
       THEN /\ rdRet' = RetErr("missing or invalid 'paths' argument")
            /\ rdPc' = "returned"
            /\ UNCHANGED uniqueFilePaths
       ELSE LET r == ResolvePaths(rdArgs.paths.v, << >>, fs)
            IN IF r.err # None
               THEN /\ rdRet' = RetErr(r.err[1])
                    /\ rdPc' = "returned"
                    /\ UNCHANGED uniqueFilePaths
               ELSE /\ uniqueFilePaths' = Unique(r.filePaths, << >>)
                    /\ rdPc' = "check"
                    /\ UNCHANGED rdRet
    /\ UNCHANGED << ctxDone, rdArgs, fs, idx, contentBuilder, statted >>
    /\ UNCHANGED << shellVars, orchVars >>

\* The caller cancels ctx.
ReaderCtxCancel ==
    /\ ~ctxDone
    /\ rdPc # "returned"
    /\ ctxDone' = TRUE
    /\ UNCHANGED << readerVars, shellVars, orchVars >>

\* ReaderCheck polling ctx.Done() before the first path only.
ReaderCheck_ChecksOnce ==
    /\ rdPc = "check"
    /\ idx < Len(uniqueFilePaths)
    /\ IF ctxDone /\ idx = 0
       THEN rdRet' = RetErr(ctxErr) /\ rdPc' = "returned"
       ELSE rdPc' = "read" /\ UNCHANGED rdRet
    /\ UNCHANGED << ctxDone, rdArgs, fs, uniqueFilePaths, idx, contentBuilder,
                    statted >>
    /\ UNCHANGED << shellVars, orchVars >>

\* Lines 247-252: the loop takes the next path and polls ctx.Done().
ReaderCheck ==
    /\ rdPc = "check"
    /\ idx < Len(uniqueFilePaths)
    /\ IF ctxDone
       THEN rdRet' = RetErr(ctxErr) /\ rdPc' = "returned"
       ELSE rdPc' = "read" /\ UNCHANGED rdRet
    /\ UNCHANGED << ctxDone, rdArgs, fs, uniqueFilePaths, idx, contentBuilder,
                    statted >>
    /\ UNCHANGED << shellVars, orchVars >>

\* ReaderRead returning the error of os.ReadFile instead of writing a marker.
ReaderRead_ReturnsReadError ==
    /\ rdPc = "read"
    /\ LET filePath == uniqueFilePaths[idx + 1]
       IN IF filePath \in DOMAIN fs /\ fs[filePath].kind = "unreadable"
          THEN /\ rdRet' = RetErr("error reading " \o filePath)
               /\ rdPc' = "returned"
               /\ UNCHANGED << statted, contentBuilder, idx >>
          ELSE /\ statted' = Append(statted, filePath)
               /\ contentBuilder' = contentBuilder \o ItemText(filePath, fs)
               /\ idx' = idx + 1
               /\ rdPc' = "check"
               /\ UNCHANGED rdRet
    /\ UNCHANGED << ctxDone, rdArgs, fs, uniqueFilePaths >>
    /\ UNCHANGED << shellVars, orchVars >>

\* Lines 254-279: Stat, ReadFile and the marker or content of one path.
ReaderRead ==
    /\ rdPc = "read"
    /\ LET filePath == uniqueFilePaths[idx + 1]
       IN /\ statted' = Append(statted, filePath)
          /\ contentBuilder' = contentBuilder \o ItemText(filePath, fs)
    /\ idx' = idx + 1
    /\ rdPc' = "check"
    /\ UNCHANGED << ctxDone, rdArgs, fs, uniqueFilePaths, rdRet >>
    /\ UNCHANGED << shellVars, orchVars >>

\* Line 282: the loop is over.
ReaderReturn ==
    /\ rdPc = "check"
    /\ idx = Len(uniqueFilePaths)
    /\ rdRet' = RetOk("content" :> contentBuilder)
    /\ rdPc' = "returned"
    /\ UNCHANGED << ctxDone, rdArgs, fs, uniqueFilePaths, idx, contentBuilder,
                    statted >>
    /\ UNCHANGED << shellVars, orchVars >>

\* ------------------------------------------------------------------------
\* main: the input loop and toolCallLoop
\* ------------------------------------------------------------------------

\* Bounds of the model client: candidates of a response, parts of a response
\* (over all its candidates), and batches of tool responses in a turn after
\* which the model stops asking for tools.
MaxCands == 2

MaxParts == 2

MaxRounds == 2

\* Declaration().Name of the two tools, and the types that implement Tool.
ToolNames == { "run_shell_command", "read_many_files" }

ToolOf(name) ==
    IF name = "run_shell_command" THEN "RunShellCommandTool"
    ELSE "ReadManyFilesTool"

\* toolRegistry is built once. main registers nothing (line 103 makes the
\* map and nothing is put into it); the model covers that registry and the
\* one that holds the two tools, so that both branches of the lookup at
\* line 163 are taken.
Registries == { [n \in S |-> ToolOf(n)] : S \in { {}, ToolNames } }

\* genai.Part: at most one of FunctionCall, FunctionResponse, Text is set.
Part(fc, fr, text) == [FunctionCall |-> fc, FunctionResponse |-> fr, Text |-> text]

TextPart(text) == Part(None, None, text)

CallPart(name, args) == Part(Some([Name |-> name, Args |-> args]), None, "")

ResponsePart(name, response) ==
    Part(None, Some([Name |-> name, Response |-> response]), "")

\* What the model may send: calls of the two tools and of a tool that does
\* not exist, with arguments of one tool or the other; text; an empty part.
CallArgs ==
    { [command |-> AnyString("ls")],
      [paths |-> AnyArray(<< AnyString("a") >>)] }

ModelParts ==
    { CallPart(n, a) : n \in ToolNames, a \in CallArgs }
    \cup { CallPart("write_file", [command |-> AnyString("ls")]) }
    \cup { TextPart(t) : t \in { "", "a", "b" } }

NilContent == [Content |-> None]

Content(parts) == [Content |-> Some(parts)]

\* The candidates with k parts; a candidate without parts has no content.
CandidatesWith(k) ==
    IF k = 0 THEN { NilContent }
    ELSE { Content(ps) : ps \in [1..k -> ModelParts] }

\* The sequences of n candidates with at most `budget` parts in all.
RECURSIVE CandidateSeqs(_, _)
CandidateSeqs(n, budget) ==
    IF n = 0 THEN { << >> }
    ELSE UNION { { << c >> \o rest : c \in CandidatesWith(k),
                                     rest \in CandidateSeqs(n - 1, budget - k) } :
                 k \in 0..budget }

Responses ==
    { [Candidates |-> cs] :
        cs \in UNION { CandidateSeqs(n, MaxParts) : n \in 0..MaxCands } }

\* The non-nil values of resp.
SomeResponse == { Some(r) : r \in Responses }

\* Lines 151-155: the parts the two range loops visit, in order, each with
\* the index of its candidate and its index in the candidate.
RECURSIVE PartsFrom(_, _)
PartsFrom(cands, ci) ==
    IF ci > Len(cands) THEN << >>
    ELSE LET cand == cands[ci]
         IN (IF cand.Content = None THEN << >>
             ELSE [pi \in 1..Len(cand.Content[1]) |->
                     [ci |-> ci, pi |-> pi, part |-> cand.Content[1][pi]]])
            \o PartsFrom(cands, ci + 1)

PartsInOrder(r) == PartsFrom(r.Candidates, 1)

HasCall(r) ==
    \E k \in 1..Len(PartsInOrder(r)) : PartsInOrder(r)[k].part.FunctionCall # None

\* Lookup that takes any registered tool once the name is registered.
Lookup_IgnoresName(registry, name) ==
    IF name \in DOMAIN registry
    THEN Some(registry[CHOOSE n \in DOMAIN registry : TRUE])
    ELSE None

\* Line 163: tool, ok := toolRegistry[call.Name]
Lookup(registry, name) ==
    IF name \in DOMAIN registry THEN Some(registry[name]) ELSE None

\* UnknownTool without the name in the message.
UnknownTool_NoName(name) == RetErr("unknown tool")

\* Line 166
UnknownTool(name) == RetErr("unknown tool: " \o name)

\* WrapResult without the test of toolErr.
WrapResult_IgnoresError(name, ret) ==
    ResponsePart(name, IF ret.result = None THEN None ELSE ret.result[1])

\* Lines 169-186: the part appended to toolResponses for a call.
WrapResult(name, ret) ==
    IF ret.err # None
    THEN ResponsePart(name, "error" :> ret.err[1])
    ELSE ResponsePart(name, IF ret.result = None THEN None ELSE ret.result[1])

\* AppendResponse putting the new part first.
AppendResponse_Prepends(responses, part) == << part >> \o responses

\* Lines 171 and 180: toolResponses = append(toolResponses, part)
AppendResponse(responses, part) == Append(responses, part)

\* AfterSendError with log.Fatal in place of log.Printf.
AfterSendError_Fatal == "exit"

\* Lines 138 and 198: after a failed send main logs and goes on with the
\* input loop.
AfterSendError == "read"

\* The calls of registered tools among the parts of a response.
RegisteredCalls(r, registry) ==
    { k \in 1..Len(PartsInOrder(r)) :
        /\ PartsInOrder(r)[k].part.FunctionCall # None
        /\ PartsInOrder(r)[k].part.FunctionCall[1].Name \in DOMAIN registry }

\* AddText putting the new text before the accumulated one.
AddText_Prepends(text, part) == IF part.Text # "" THEN part.Text \o text ELSE text

\* Lines 187-189
AddText(text, part) == IF part.Text # "" THEN text \o part.Text ELSE text

\* ReadManyFilesTool.Execute under a context that is never cancelled.
RECURSIVE ItemTexts(_, _)
ItemTexts(filePaths, fsys) ==
    IF filePaths = << >> THEN ""
    ELSE ItemText(Head(filePaths), fsys) \o ItemTexts(Tail(filePaths), fsys)

ReaderRun(args, fsys) ==
    IF ~IsArray(args, "paths")
    THEN RetErr("missing or invalid 'paths' argument")
    ELSE LET r == ResolvePaths(args.paths.v, << >>, fsys)
         IN IF r.err # None THEN RetErr(r.err[1])
            ELSE RetOk("content" :> ItemTexts(Unique(r.filePaths, << >>), fsys))

\* RunShellCommandTool.Execute under a context that is never cancelled:
\* bash ended with status w (Start failed when w is None).
ShellRun(args, w) ==
    IF ~IsString(args, "command")
    THEN RetErr("missing or invalid 'command' argument")
    ELSE IF w = None
    THEN RetErr("failed to start command: chdir: no such file or directory")
    ELSE RetOk(ShellResult(args.command.v, StringOrZero(args, "directory"),
                           "", "", DecodeStatus(WaitResult(w[1], "stopped")), -1))

\* The file systems and exit statuses main's tools meet in the model.
MainFileSystems ==
    { [p \in { AllPaths[i] : i \in 1..Len(AllPaths) } |->
         IF p = "/p/a" THEN e ELSE Dir] : e \in { Absent, File(<< 104, 105 >>) } }

MainStatuses == { None, Some(0), Some(256), Some(SIGTERM) }

\* Line 164: what tool.Execute(ctx, call.Args) can return, ctx being
\* context.Background().
Execute(tool, args) ==
    IF tool = "RunShellCommandTool"
    THEN { ShellRun(args, w) : w \in MainStatuses }
    ELSE { ReaderRun(args, f) : f \in MainFileSystems }

\* Lines 125-135: the next line of input; `quit` or the end of input ends
\* the loop, any other line is sent to the model. The variables of the
\* iteration before are out of scope.
ReadLine ==
    /\ pc = "read"
    /\ \E line \in { None, Some("quit"), Some("hi") } :
         IF line = None \/ line = Some("quit")
         THEN /\ pc' = "exit"
              /\ inflight' = << >>
         ELSE /\ pc' = "awaitResp"
              /\ inflight' = << TextPart(line[1]) >>
    /\ resp' = None
    /\ cursor' = 0
    /\ toolResponses' = << >>
    /\ modelTextResponse' = ""
    /\ execLog' = << >>
    /\ execTotal' = 0
    /\ callTotal' = 0
    /\ output' = << >>
    /\ lastEnd' = "none"
    /\ round' = 0
    /\ UNCHANGED << toolRegistry, running >>
    /\ UNCHANGED << ctxDone, shellVars, readerVars >>

\* Lines 135-149 and 195-199: chat.SendMessage returns, an error or a
\* response, and toolCallLoop looks at the response. After MaxRounds batches
\* the model asks for no more tools.
SendMessageReturns ==
    /\ pc = "awaitResp"
    /\ inflight' = << >>
    /\ \/ /\ pc' = AfterSendError
          /\ lastEnd' = "senderr"
          /\ UNCHANGED << resp, output, toolResponses, modelTextResponse,
                          cursor, execLog, callTotal >>
       \/ /\ resp' \in SomeResponse
          /\ LET r == resp'[1]
             IN /\ round < MaxRounds \/ ~HasCall(r)
                /\ toolResponses' = << >>
                /\ modelTextResponse' = ""
                /\ cursor' = 0
                /\ execLog' = << >>
                /\ callTotal' = callTotal
                                  + Cardinality(RegisteredCalls(r, toolRegistry))
                /\ IF Len(r.Candidates) = 0
                   THEN /\ output' = Append(output, "No response candidates\n")
                        /\ lastEnd' = "nocand"
                        /\ pc' = "read"
                   ELSE /\ pc' = "parts"
                        /\ UNCHANGED << output, lastEnd >>
    /\ UNCHANGED << toolRegistry, running, round, execTotal >>
    /\ UNCHANGED << ctxDone, shellVars, readerVars >>

\* RangePart starting Execute and going on with the next part at once.
RangePart_DoesNotWait ==
    /\ pc = "parts"
    /\ cursor < Len(PartsInOrder(resp[1]))
    /\ LET at == PartsInOrder(resp[1])[cursor + 1]
           part == at.part
       IN IF part.FunctionCall # None
          THEN LET call == part.FunctionCall[1]
                   tool == Lookup(toolRegistry, call.Name)
               IN IF tool # None
                  THEN /\ running' = Some([tool |-> tool[1], call |-> call])
                       /\ execLog' = Append(execLog,
                                            [tool |-> tool[1], args |-> call.Args,
                                             at |-> cursor + 1,
                                             ret |-> NotReturned])
                       /\ execTotal' = execTotal + 1
                       /\ cursor' = cursor + 1
                       /\ UNCHANGED << pc, toolResponses, modelTextResponse >>
                  ELSE /\ toolResponses' =
                            AppendResponse(toolResponses,
                                           WrapResult(call.Name,
                                                      UnknownTool(call.Name)))
                       /\ cursor' = cursor + 1
                       /\ UNCHANGED << pc, running, execLog, execTotal,
                                       modelTextResponse >>
          ELSE /\ modelTextResponse' = AddText(modelTextResponse, part)
               /\ cursor' = cursor + 1
               /\ UNCHANGED << pc, running, execLog, execTotal, toolResponses >>
    /\ UNCHANGED << toolRegistry, resp, inflight, round, callTotal, output,
                    lastEnd >>
    /\ UNCHANGED << ctxDone, shellVars, readerVars >>

\* Lines 155-167 and 187-189: the loops take the next part. A call of a
\* registered tool starts its Execute; a call of an unknown tool gets an
\* error response; text is accumulated.
RangePart ==
    /\ pc = "parts"
    /\ cursor < Len(PartsInOrder(resp[1]))
    /\ LET at == PartsInOrder(resp[1])[cursor + 1]
           part == at.part
       IN IF part.FunctionCall # None
          THEN LET call == part.FunctionCall[1]
                   tool == Lookup(toolRegistry, call.Name)
               IN IF tool # None
                  THEN /\ running' = Some([tool |-> tool[1], call |-> call])
                       /\ execLog' = Append(execLog,
                                            [tool |-> tool[1], args |-> call.Args,
                                             at |-> cursor + 1,
                                             ret |-> NotReturned])
                       /\ execTotal' = execTotal + 1
                       /\ pc' = "exec"
                       /\ UNCHANGED << cursor, toolResponses, modelTextResponse >>
                  ELSE /\ toolResponses' =
                            AppendResponse(toolResponses,
                                           WrapResult(call.Name,
                                                      UnknownTool(call.Name)))
                       /\ cursor' = cursor + 1
                       /\ UNCHANGED << pc, running, execLog, execTotal,
                                       modelTextResponse >>
          ELSE /\ modelTextResponse' = AddText(modelTextResponse, part)
               /\ cursor' = cursor + 1
               /\ UNCHANGED << pc, running, execLog, execTotal, toolResponses >>
    /\ UNCHANGED << toolRegistry, resp, inflight, round, callTotal, output,
                    lastEnd >>
    /\ UNCHANGED << ctxDone, shellVars, readerVars >>

\* Lines 164 and 169-186: Execute returns and its result or error is
\* appended to toolResponses.
ExecuteReturns ==
    /\ pc = "exec"
    /\ \E ret \in Execute(running[1].tool, running[1].call.Args) :
         /\ toolResponses' = AppendResponse(toolResponses,
                                            WrapResult(running[1].call.Name, ret))
         /\ execLog' = [execLog EXCEPT ![Len(execLog)].ret = ret]
    /\ running' = None
    /\ cursor' = cursor + 1
    /\ pc' = "parts"
    /\ UNCHANGED << toolRegistry, resp, modelTextResponse, inflight, round,
                    execTotal, callTotal, output, lastEnd >>
    /\ UNCHANGED << ctxDone, shellVars, readerVars >>

\* SendToolResponses with a cap of one round-trip in a turn: the second
\* batch is dropped and the turn ends.
SendToolResponses_CappedAtOne ==
    /\ pc = "parts"
    /\ cursor = Len(PartsInOrder(resp[1]))
    /\ Len(toolResponses) > 0
    /\ IF round < 1
       THEN /\ inflight' = toolResponses
            /\ round' = round + 1
            /\ pc' = "awaitResp"
            /\ UNCHANGED lastEnd
       ELSE /\ pc' = "read"
            /\ lastEnd' = "text"
            /\ UNCHANGED << inflight, round >>
    /\ UNCHANGED << toolRegistry, resp, cursor, toolResponses,
                    modelTextResponse, running, execLog, execTotal, callTotal,
                    output >>
    /\ UNCHANGED << ctxDone, shellVars, readerVars >>

\* Lines 193-195: the parts are done and there are tool responses.
SendToolResponses ==
    /\ pc = "parts"
    /\ cursor = Len(PartsInOrder(resp[1]))
    /\ Len(toolResponses) > 0
    /\ inflight' = toolResponses
    /\ round' = round + 1
    /\ pc' = "awaitResp"
    /\ UNCHANGED << toolRegistry, resp, cursor, toolResponses,
                    modelTextResponse, running, execLog, execTotal, callTotal,
                    output, lastEnd >>
    /\ UNCHANGED << ctxDone, shellVars, readerVars >>

\* EmitText without the test of toolResponses.
EmitText_IgnoresToolResponses ==
    /\ pc = "parts"
    /\ cursor = Len(PartsInOrder(resp[1]))
    /\ output' = IF modelTextResponse # ""
                 THEN Append(output, "Gemini: " \o modelTextResponse \o "\n")
                 ELSE output
    /\ lastEnd' = "text"
    /\ pc' = "read"
    /\ UNCHANGED << toolRegistry, resp, cursor, toolResponses,
                    modelTextResponse, inflight, running, round, execLog,
                    execTotal, callTotal >>
    /\ UNCHANGED << ctxDone, shellVars, readerVars >>

\* Lines 200-205: the parts are done and there is no tool response.
EmitText ==
    /\ pc = "parts"
    /\ cursor = Len(PartsInOrder(resp[1]))
    /\ Len(toolResponses) = 0
    /\ output' = IF modelTextResponse # ""
                 THEN Append(output, "Gemini: " \o modelTextResponse \o "\n")
                 ELSE output
    /\ lastEnd' = "text"
    /\ pc' = "read"
    /\ UNCHANGED << toolRegistry, resp, cursor, toolResponses,
                    modelTextResponse, inflight, running, round, execLog,
                    execTotal, callTotal >>
    /\ UNCHANGED << ctxDone, shellVars, readerVars >>

\* ------------------------------------------------------------------------
\* Specifications
\* ------------------------------------------------------------------------

\* The shell tool is not in use.
ShellIdle ==
    /\ shPc = "off"
    /\ shArgs = EmptyArgs
    /\ proc = ProcNone
    /\ bg = "none"
    /\ watch = "idle"
    /\ waiter = "none"
    /\ waitErr = WaitNil
    /\ done = << >>
    /\ stdoutBuf = ""
    /\ stderrBuf = ""
    /\ shRet = NotReturned
    /\ events = << >>
    /\ cancelInFlight = FALSE

\* The reader is not in use.
ReaderIdle ==
    /\ rdPc = "off"
    /\ rdArgs = EmptyArgs
    /\ fs = [p \in {} |-> Absent]
    /\ uniqueFilePaths = << >>
    /\ idx = 0
    /\ contentBuilder = ""
    /\ rdRet = NotReturned
    /\ statted = << >>

\* main is not in use.
OrchIdle ==
    /\ pc = "off"
    /\ toolRegistry = [n \in {} |-> ""]
    /\ resp = None
    /\ cursor = 0
    /\ toolResponses = << >>
    /\ modelTextResponse = ""
    /\ inflight = << >>
    /\ running = None
    /\ round = 0
    /\ execLog = << >>
    /\ execTotal = 0
    /\ callTotal = 0
    /\ output = << >>
    /\ lastEnd = "none"

ShellInit ==
    /\ ctxDone = FALSE
    /\ shPc = "idle"
    /\ shArgs \in ShellArgs
    /\ proc = ProcNone
    /\ bg = "none"
    /\ watch = "idle"
    /\ waiter = "none"
    /\ waitErr = WaitNil
    /\ done = << >>
    /\ stdoutBuf = ""
    /\ stderrBuf = ""
    /\ shRet = NotReturned
    /\ events = << >>
    /\ cancelInFlight = FALSE
    /\ ReaderIdle
    /\ OrchIdle

ShellNext ==
    \/ ShellEnter
    \/ CtxCancel
    \/ ProcWrite
    \/ ProcFork
    \/ BgExit
    \/ ProcExit
    \/ WatchCtx
    \/ WaitReap
    \/ WaitSend
    \/ SelectPark
    \/ SelectCtxDone
    \/ SelectDone
    \/ CancelGetpgid
    \/ CancelKill
    \/ CancelRecv

SpecShell == ShellInit /\ [][ShellNext]_vars

\* Execute under the scheduling it can rely on: its own goroutine, the wait
\* goroutine and the context watcher keep running and the kernel delivers
\* what it is asked to. Nothing obliges the command or a background process
\* to end, nor the caller to cancel.
SpecShellFair ==
    /\ ShellInit
    /\ [][ShellNext]_vars
    /\ WF_vars(ShellEnter)
    /\ WF_vars(WatchCtx)
    /\ WF_vars(WaitReap)
    /\ WF_vars(WaitSend)
    /\ WF_vars(SelectPark)
    /\ WF_vars(SelectCtxDone \/ SelectDone)
    /\ WF_vars(CancelGetpgid)
    /\ WF_vars(CancelKill)
    /\ WF_vars(CancelRecv)

ReaderInit ==
    /\ ctxDone = FALSE
    /\ rdPc = "idle"
    /\ rdArgs \in ReaderArgs
    /\ fs \in FileSystems
    /\ uniqueFilePaths = << >>
    /\ idx = 0
    /\ contentBuilder = ""
    /\ rdRet = NotReturned
    /\ statted = << >>
    /\ ShellIdle
    /\ OrchIdle

ReaderNext ==
    \/ ReaderEnter
    \/ ReaderCtxCancel
    \/ ReaderCheck
    \/ ReaderRead
    \/ ReaderReturn

SpecReader == ReaderInit /\ [][ReaderNext]_vars

Init ==
    /\ ctxDone = FALSE
    /\ pc = "read"
    /\ toolRegistry \in Registries
    /\ resp = None
    /\ cursor = 0
    /\ toolResponses = << >>
    /\ modelTextResponse = ""
    /\ inflight = << >>
    /\ running = None
    /\ round = 0
    /\ execLog = << >>
    /\ execTotal = 0
    /\ callTotal = 0
    /\ output = << >>
    /\ lastEnd = "none"
    /\ ShellIdle
    /\ ReaderIdle

Next ==
    \/ ReadLine
    \/ SendMessageReturns
    \/ RangePart
    \/ ExecuteReturns
    \/ SendToolResponses
    \/ EmitText

Spec == Init /\ [][Next]_vars

\* main under the scheduling a turn relies on: main's goroutine keeps
\* running, every Execute returns and every SendMessage returns. The user
\* need not type another line.
SpecFair ==
    /\ Init
    /\ [][Next]_vars
    /\ WF_vars(SendMessageReturns)
    /\ WF_vars(RangePart)
    /\ WF_vars(ExecuteReturns)
    /\ WF_vars(SendToolResponses)
    /\ WF_vars(EmitText)

\* ------------------------------------------------------------------------
\* Properties of main
\* ------------------------------------------------------------------------

\* The parts of the response main is processing, in the order of the loops.
Parts == IF resp = None THEN << >> ELSE PartsInOrder(resp[1])

IsCall(k) == Parts[k].part.FunctionCall # None

CallAt(k) == Parts[k].part.FunctionCall[1]

\* The calls among the first n parts, and the place of the call at part k
\* among the calls.
CallsUpTo(n) == { k \in 1..n : IsCall(k) }

Rank(k) == Cardinality(CallsUpTo(k))

Registered(k) == CallAt(k).Name \in DOMAIN toolRegistry

ResponseOf(k) == toolResponses[Rank(k)].FunctionResponse[1]

\* C1: a call whose name is not in the registry starts no Execute; its place
\* in toolResponses holds an error response with the call's name and the
\* message "unknown tool: <name>"; the loops go on with the parts after it.
C1_UnknownToolYieldsError ==
    /\ \A k \in CallsUpTo(cursor) :
         ~Registered(k) =>
            /\ Rank(k) <= Len(toolResponses)
            /\ toolResponses[Rank(k)] =
                 ResponsePart(CallAt(k).Name,
                              "error" :> ("unknown tool: " \o CallAt(k).Name))
            /\ \A j \in 1..Len(execLog) : execLog[j].at # k
    /\ running # None => running[1].call.Name \in DOMAIN toolRegistry
    /\ cursor < Len(Parts) => pc \in { "parts", "exec" }

\* An unknown call was answered and the registered call after it executed.
C1_Witness ==
    /\ Len(Parts) = 2
    /\ cursor = 2
    /\ IsCall(1) /\ ~Registered(1)
    /\ Len(execLog) = 1 /\ execLog[1].at = 2
    /\ Len(toolResponses) = 2

\* C2: a call of a registered name starts Execute of the tool registered
\* under that name, once, with the call's arguments; nothing else is
\* executed, and over the turn there are as many Execute calls as calls of
\* registered tools received, so no call is dispatched again in a later
\* round-trip.
C2_RegisteredToolExecutedOnce ==
    LET n == IF pc = "exec" THEN cursor + 1 ELSE cursor
        reg == { k \in CallsUpTo(n) : Registered(k) }
        todo == { k \in CallsUpTo(Len(Parts)) : Registered(k) /\ k > n }
    IN /\ Len(execLog) = Cardinality(reg)
       /\ \A j \in 1..Len(execLog) :
            LET k == execLog[j].at
            IN /\ k \in reg
               /\ Cardinality({ i \in reg : i <= k }) = j
               /\ execLog[j].tool = toolRegistry[CallAt(k).Name]
               /\ execLog[j].args = CallAt(k).Args
       /\ execTotal + Cardinality(todo) = callTotal

\* Two calls were executed in the first round-trip and the turn ended in a
\* later one.
C2_Witness ==
    /\ pc = "read"
    /\ lastEnd = "text"
    /\ round = 1
    /\ execTotal = 2

\* C3: the message sent after a response with n >= 1 calls is the batch of
\* n function responses, the i-th for the i-th call in the order received
\* and holding what that call's Execute returned, with no text part; nothing
\* is sent while the parts of a response are processed.
C3_BatchMatchesCalls ==
    /\ pc \in { "parts", "exec" } => inflight = << >>
    /\ (pc = "parts" /\ cursor = Len(Parts) /\ CallsUpTo(Len(Parts)) # {})
          => Len(toolResponses) > 0
    /\ (pc = "awaitResp" /\ round > 0) =>
          /\ inflight = toolResponses
          /\ Len(inflight) >= 1
          /\ Len(inflight) = Cardinality(CallsUpTo(Len(Parts)))
          /\ \A k \in CallsUpTo(Len(Parts)) :
               LET m == inflight[Rank(k)]
               IN /\ m.FunctionResponse # None
                  /\ m.FunctionCall = None
                  /\ m.Text = ""
                  /\ m.FunctionResponse[1].Name = CallAt(k).Name
                  /\ \A j \in 1..Len(execLog) :
                       execLog[j].at = k =>
                          m = WrapResult(CallAt(k).Name, execLog[j].ret)

\* A batch for two calls of different tools is on its way.
C3_Witness ==
    /\ pc = "awaitResp"
    /\ round = 1
    /\ Len(inflight) = 2
    /\ inflight[1].FunctionResponse[1].Name # inflight[2].FunctionResponse[1].Name
    /\ Len(execLog) = 1

\* C8: what Execute returns for a call, error or fields, is at the call's
\* place in toolResponses under the call's name: an error as a map with the
\* one entry "error", fields as they are; every response is one or the
\* other; and the loops go on after an error.
C8_ToolErrorsBecomeResults ==
    /\ Len(toolResponses) = Cardinality(CallsUpTo(cursor))
    /\ \A k \in CallsUpTo(cursor) :
         /\ toolResponses[Rank(k)].FunctionResponse # None
         /\ ResponseOf(k).Name = CallAt(k).Name
         /\ LET R == ResponseOf(k).Response
            IN (DOMAIN R = { "error" }) # (DOMAIN R # {} /\ "error" \notin DOMAIN R)
    /\ \A j \in 1..Len(execLog) :
         LET e == execLog[j]
         IN e.ret # NotReturned =>
              IF e.ret.err # None
              THEN ResponseOf(e.at).Response = ("error" :> e.ret.err[1])
              ELSE ResponseOf(e.at).Response = e.ret.result[1]
    /\ cursor < Len(Parts) => pc \in { "parts", "exec" }
    /\ pc = "exit" => resp = None

\* Execute returned an error for the first call and fields for the second.
C8_Witness ==
    /\ pc = "parts"
    /\ Len(execLog) = 2
    /\ execLog[1].ret.err # None
    /\ execLog[2].ret.result # None
    /\ Len(toolResponses) = 2

\* C9: when SendMessage fails the turn is over: main is back at reading a
\* line (it has not exited), no message is in flight, no Execute runs,
\* nothing was printed for the turn and every Execute of the turn belongs to
\* a response received before.
C9_SendFailureEndsTurn ==
    lastEnd = "senderr" =>
        /\ pc = "read"
        /\ ENABLED ReadLine
        /\ inflight = << >>
        /\ running = None
        /\ output = << >>
        /\ cursor = Len(Parts)
        /\ execTotal = callTotal

\* The send of a batch of tool responses failed.
C9_Witness ==
    /\ lastEnd = "senderr"
    /\ round = 1
    /\ execTotal >= 1

\* The text of the first n parts that belong to the candidates in cs, in the
\* order of the loops.
RECURSIVE TextUpTo(_, _)
TextUpTo(n, cs) ==
    IF n = 0 THEN ""
    ELSE TextUpTo(n - 1, cs)
         \o (IF Parts[n].ci \in cs /\ ~IsCall(n) THEN Parts[n].part.Text ELSE "")

\* C14: only the parts of the first candidate are looked at: every Execute
\* and every tool response belongs to a call of the first candidate and the
\* accumulated text is the text of the first candidate.
C14_OnlyFirstCandidate ==
    pc \in { "parts", "exec" } =>
        /\ \A j \in 1..Len(execLog) : Parts[execLog[j].at].ci = 1
        /\ Len(toolResponses)
             <= Cardinality({ k \in CallsUpTo(Len(Parts)) : Parts[k].ci = 1 })
        /\ modelTextResponse = TextUpTo(cursor, { 1 })

\* A step that ends a turn: main goes back to reading a line.
TurnEnds == pc \in { "awaitResp", "parts", "exec" } /\ pc' = "read"

\* (a) the response that arrived has no candidates; "No response candidates"
\* is printed.
EndsWithoutCandidates ==
    /\ pc = "awaitResp"
    /\ resp' # None
    /\ Len(resp'[1].Candidates) = 0
    /\ output' = Append(output, "No response candidates\n")

\* (b) every part of the response was looked at, none is a function call,
\* and the accumulated text is printed unless it is empty.
EndsWithText ==
    /\ pc = "parts"
    /\ cursor = Len(Parts)
    /\ CallsUpTo(Len(Parts)) = {}
    /\ toolResponses = << >>
    /\ execLog = << >>
    /\ output' = IF modelTextResponse = "" THEN output
                 ELSE Append(output, "Gemini: " \o modelTextResponse \o "\n")

\* (c) the send failed: no response arrived and nothing is printed.
EndsWithSendError ==
    /\ pc = "awaitResp"
    /\ lastEnd' = "senderr"
    /\ resp' = resp
    /\ output' = output

\* C15: a turn ends in one of three ways only: a response without
\* candidates, a response without function calls whose text is emitted, or a
\* failed send. Once it has ended nothing is in flight to the model and no
\* Execute runs, and a first response without function calls ends the turn
\* with no Execute and no second send.
C15_TurnEndsOnlyThreeWays ==
    /\ [][TurnEnds => (EndsWithoutCandidates \/ EndsWithText \/ EndsWithSendError)]_vars
    /\ [](pc = "read" => (inflight = << >> /\ running = None))
    /\ []((pc = "parts" /\ round = 0 /\ CallsUpTo(Len(Parts)) = {}) =>
             (execTotal = 0 /\ toolResponses = << >>))
    /\ [][(pc = "parts" /\ CallsUpTo(Len(Parts)) = {} /\ cursor = Len(Parts))
             => pc' = "read"]_vars

\* A response of text only has ended the turn after one round-trip.
C15_Witness ==
    /\ pc = "read"
    /\ lastEnd = "text"
    /\ round = 0
    /\ execTotal = 0
    /\ output = << "Gemini: ab\n" >>

\* The Execute calls for the response that have not returned.
Unreturned == { j \in 1..Len(execLog) : execLog[j].ret = NotReturned }

\* C16: at most one Execute is in flight; while one is, every Execute
\* started before it has returned and the response of every call before it
\* is in toolResponses; when none is, every Execute started has returned.
C16_OneExecuteAtATime ==
    /\ Cardinality(Unreturned) <= 1
    /\ running # None =>
          /\ pc = "exec"
          /\ Unreturned = { Len(execLog) }
          /\ execLog[Len(execLog)].at = cursor + 1
          /\ Len(toolResponses) = Cardinality(CallsUpTo(cursor))
    /\ running = None =>
          /\ pc # "exec"
          /\ Unreturned = {}
    /\ \A i, j \in 1..Len(execLog) : i < j => execLog[i].at < execLog[j].at

\* The second Execute of a response runs; the first has returned and its
\* response is in toolResponses.
C16_Witness ==
    /\ pc = "exec"
    /\ running # None
    /\ Len(execLog) = 2
    /\ execLog[1].ret # NotReturned
    /\ Len(toolResponses) = 1

\* Every part of the response was looked at and at least one is a call.
CallsDone == pc = "parts" /\ cursor = Len(Parts) /\ CallsUpTo(Len(Parts)) # {}

\* C17: whatever the number of round-trips made so far, a response with a
\* function call is answered by sending its batch of tool responses, never
\* by ending the turn; and when every Execute and every send returns and
\* the model stops asking for tools, the turn ends.
C17_NoRoundLimitAndTermination ==
    /\ [](CallsDone => (ENABLED SendToolResponses /\ ~ENABLED EmitText))
    /\ [][CallsDone => /\ pc' = "awaitResp"
                       /\ inflight' = toolResponses
                       /\ round' = round + 1]_vars
    /\ (pc \in { "awaitResp", "parts", "exec" }) ~> (pc = "read")

\* A turn has ended after two batches of tool responses.
C17_Witness ==
    /\ pc = "read"
    /\ round = 2
    /\ lastEnd \in { "text", "nocand" }
    /\ execTotal >= 2

\* The text of all the parts of the response, in the order of the loops.
ResponseText == TextUpTo(Len(Parts), 1..MaxCands)

\* C20: nothing is printed while a turn is in progress, so the text of a
\* response that holds a function call is never printed; a turn that ends
\* with a response without function calls prints the text of that
\* response's parts, concatenated in part order, and prints nothing when
\* that text is empty.
C20_TextEmittedOnlyWithoutCalls ==
    /\ Len(output) <= 1
    /\ pc \in { "awaitResp", "parts", "exec" } => output = << >>
    /\ pc \in { "parts", "exec" } => modelTextResponse = TextUpTo(cursor, 1..MaxCands)
    /\ (pc = "read" /\ lastEnd = "text") =>
          /\ CallsUpTo(Len(Parts)) = {}
          /\ output = IF ResponseText = "" THEN << >>
                      ELSE << "Gemini: " \o ResponseText \o "\n" >>
    /\ (pc = "read" /\ lastEnd = "nocand") => output = << "No response candidates\n" >>
    /\ (pc = "read" /\ lastEnd = "senderr") => output = << >>

\* After a round-trip for a function call the turn ended with the text of
\* two parts.
C20_Witness ==
    /\ pc = "read"
    /\ lastEnd = "text"
    /\ round = 1
    /\ execTotal = 1
    /\ output = << "Gemini: ba\n" >>

\* ------------------------------------------------------------------------
\* Properties of RunShellCommandTool.Execute
\* ------------------------------------------------------------------------

ShellSucceeded == shPc = "returned" /\ shRet.result # None

\* C4: when ctx is cancelled while the command is in flight, Execute returns
\* nil and the cancellation error, never a result map.
C4_CancelledInFlightReturnsCancellation ==
    (shPc = "returned" /\ cancelInFlight) => shRet = RetErr(ctxErr)

\* C5: on the cancellation path the group is signalled, then the wait result
\* is received, then Execute returns; it never returns without the signal.
C5_CancelPathSignalsThenJoins ==
    (shPc = "returned" /\ shRet = RetErr(ctxErr))
        => events = << "kill", "recv", "return" >>

\* C6: a result map never holds both an exit code and a signal.
C6_ExitCodeXorSignal ==
    ShellSucceeded =>
        ~ (shRet.result[1]["Exit Code"] # -1 /\ shRet.result[1]["Signal"] # -1)

\* A result map for a command that a signal ended.
C6_Witness ==
    /\ ShellSucceeded
    /\ shRet.result[1]["Signal"] = SIGTERM
    /\ ~ctxDone

\* C7: the fields of a result map follow from how bash ended: no wait error
\* gives 0, -1, "(none)"; exit code c # 0 gives c, -1 and an error text;
\* signal s gives -1, s and an error text; any other wait error gives -1, -1
\* and that error's message.
C7_DecodedFields ==
    ShellSucceeded =>
        LET r == shRet.result[1]
            w == proc.status
        IN /\ waitErr.kind = "nil" =>
                r["Exit Code"] = 0 /\ r["Signal"] = -1 /\ r["Error"] = "(none)"
           /\ waitErr.kind = "ExitError" =>
                /\ (\E c \in 1..255 : w = c * 256) \/ w \in { SIGKILL, SIGTERM }
                /\ \A c \in 1..255 :
                     w = c * 256 =>
                        /\ r["Exit Code"] = c
                        /\ r["Signal"] = -1
                        /\ r["Error"] # "(none)"
                /\ \A sig \in { SIGKILL, SIGTERM } :
                     w = sig =>
                        /\ r["Exit Code"] = -1
                        /\ r["Signal"] = sig
                        /\ r["Error"] # "(none)"
           /\ waitErr.kind = "other" =>
                /\ r["Exit Code"] = -1
                /\ r["Signal"] = -1
                /\ r["Error"] = waitErr.msg

\* A result map for a wait error that is no ExitError.
C7_Witness ==
    /\ ShellSucceeded
    /\ waitErr.kind = "other"
    /\ shRet.result[1]["Error"] = ctxErr

\* C12: without a string `command` Execute returns the input error and
\* there is no process, no wait goroutine, no watcher and no signal, at any
\* moment; when Start fails Execute returns an error and no result map.
C12_NoSpawnOnInputError ==
    /\ ~IsString(shArgs, "command") =>
          /\ proc = ProcNone
          /\ waiter = "none"
          /\ watch = "idle"
          /\ done = << >>
          /\ events = << >>
          /\ shPc \in { "idle", "returned" }
          /\ shPc = "returned" =>
                shRet = RetErr("missing or invalid 'command' argument")
    /\ (shPc = "returned" /\ IsString(shArgs, "command") /\ proc = ProcNone) =>
          /\ shRet.result = None
          /\ shRet.err # None
          /\ SubSeq(shRet.err[1], 1, 25) = "failed to start command: "
          /\ waiter = "none"
          /\ events = << >>

\* Execute returned for a `command` that is a number.
C12_Witness ==
    /\ shPc = "returned"
    /\ "command" \in DOMAIN shArgs
    /\ ~IsString(shArgs, "command")
    /\ shRet.err # None

\* C13: in a result map "Directory" is the directory argument when one was
\* given and "(root)" when it is unset or empty, "Command" is the command
\* text and "Background PIDs" is the empty list.
C13_DirectoryOrRootMarker ==
    ShellSucceeded =>
        LET r == shRet.result[1]
            dir == StringOrZero(shArgs, "directory")
        IN /\ r["Directory"] = IF dir # "" THEN dir ELSE "(root)"
           /\ r["Command"] = shArgs.command.v
           /\ r["Background PIDs"] = << >>

\* C19: once ctx is cancelled while the command is in flight, Execute
\* returns in the end.
C19_CancelledExecuteReturns == cancelInFlight ~> (shPc = "returned")

\* ------------------------------------------------------------------------
\* Properties of ReadManyFilesTool.Execute
\* ------------------------------------------------------------------------

\* `paths` is an array of strings none of which is a malformed pattern.
WellFormedPaths ==
    /\ IsArray(rdArgs, "paths")
    /\ \A i \in 1..Len(rdArgs.paths.v) :
         /\ rdArgs.paths.v[i].t = "string"
         /\ ~BadPattern(Join(ProjectRoot, rdArgs.paths.v[i].v))

\* C10: once `paths` is an array, Execute returns no error.
C10_NeverFailsOncePathsIsArray ==
    (rdPc = "returned" /\ IsArray(rdArgs, "paths")) => rdRet.err = None

\* C10, in the form that holds: once `paths` is an array, Execute returns an
\* error in three cases only. An entry that is no string or is a malformed
\* pattern ends the call before any path is examined; a cancellation found
\* before an item ends it with the cancellation error; in every other case
\* each path is examined, whatever is wrong with it becomes a marker, and a
\* content string is returned.
C10_FailsOnlyOnBadEntryOrCancellation ==
    (rdPc = "returned" /\ IsArray(rdArgs, "paths")) =>
        IF ~WellFormedPaths
        THEN /\ rdRet.result = None
             /\ rdRet.err # None
             /\ rdRet.err[1] # ctxErr
             /\ statted = << >>
        ELSE \/ /\ rdRet.err = None
                /\ rdRet.result # None
                /\ DOMAIN rdRet.result[1] = { "content" }
                /\ statted = uniqueFilePaths
             \/ /\ rdRet = RetErr(ctxErr)
                /\ ctxDone
                /\ Len(statted) < Len(uniqueFilePaths)

\* Content was returned although a path was missing, unreadable or could
\* not be examined.
C10_Witness ==
    /\ rdPc = "returned"
    /\ WellFormedPaths
    /\ rdRet.err = None
    /\ \E i \in 1..Len(uniqueFilePaths) :
         fs[uniqueFilePaths[i]].kind \in { "absent", "staterr", "unreadable" }


\* What the entries of `paths` resolve to, entry by entry: a pattern with
\* metacharacters to its matches, any other entry to its joined path.
ResolvedEntry(i) ==
    LET pattern == rdArgs.paths.v[i].v
    IN IF ContainsAny(pattern, {"*", "?", "[", "]"})
       THEN Glob(Join(ProjectRoot, pattern), fs).matches
       ELSE << Join(ProjectRoot, pattern) >>

RECURSIVE ResolvedUpTo(_)
ResolvedUpTo(n) == IF n = 0 THEN << >> ELSE ResolvedUpTo(n - 1) \o ResolvedEntry(n)

Resolved == ResolvedUpTo(Len(rdArgs.paths.v))

\* The place of the first occurrence of a path in the resolved list.
FirstAt(p) == CHOOSE i \in 1..Len(Resolved) :
                  Resolved[i] = p /\ \A j \in 1..(i - 1) : Resolved[j] # p

\* C11: the paths the loop processes are the resolved paths, each once, in
\* the order of their first occurrence in the resolved list; the content
\* returned is one marker or block for each of them, in that order.
C11_UniqueInFirstSeenOrder ==
    (rdPc \in { "check", "read" } \/ (rdPc = "returned" /\ WellFormedPaths)) =>
        /\ \A i \in 1..Len(Resolved) :
             \E k \in 1..Len(uniqueFilePaths) : uniqueFilePaths[k] = Resolved[i]
        /\ \A k \in 1..Len(uniqueFilePaths) :
             \E i \in 1..Len(Resolved) : uniqueFilePaths[k] = Resolved[i]
        /\ \A k, l \in 1..Len(uniqueFilePaths) :
             k < l => /\ uniqueFilePaths[k] # uniqueFilePaths[l]
                      /\ FirstAt(uniqueFilePaths[k]) < FirstAt(uniqueFilePaths[l])
        /\ statted = SubSeq(uniqueFilePaths, 1, idx)
        /\ contentBuilder = ItemTexts(statted, fs)
        /\ (rdPc = "returned" /\ rdRet.err = None) =>
              /\ idx = Len(uniqueFilePaths)
              /\ rdRet.result[1]["content"] = contentBuilder

\* Content was returned for a path that two patterns produce, the second
\* pattern producing another path as well.
C11_Witness ==
    /\ rdPc = "returned"
    /\ rdRet.err = None
    /\ WellFormedPaths
    /\ Len(Resolved) = 3
    /\ Resolved[1] = Resolved[3]
    /\ Len(uniqueFilePaths) = 2


\* C18: ctx is looked at before each path. When it is done as path k is
\* about to be processed, Execute returns the cancellation error and no
\* result, whatever was written for the paths before k, and no path from k
\* on is examined; a path whose processing has begun is processed to its
\* end, ctx done or not.
C18_CancellationBetweenItems ==
    /\ []((rdPc = "returned" /\ rdRet.err = Some(ctxErr)) =>
            /\ rdRet.result = None
            /\ ctxDone
            /\ idx < Len(uniqueFilePaths)
            /\ statted = SubSeq(uniqueFilePaths, 1, idx))
    /\ [][(rdPc = "check" /\ ctxDone /\ idx < Len(uniqueFilePaths)) =>
             /\ rdPc' = "returned"
             /\ rdRet' = RetErr(ctxErr)
             /\ statted' = statted]_vars
    /\ [][(rdPc = "read" /\ rdPc' # "read") =>
             /\ rdPc' = "check"
             /\ idx' = idx + 1
             /\ statted' = Append(statted, uniqueFilePaths[idx + 1])
             /\ contentBuilder'
                  = contentBuilder \o ItemText(uniqueFilePaths[idx + 1], fs)]_vars
    /\ [][rdPc = "returned" => statted' = statted]_vars

\* ctx was done before the second of two paths: the first was examined and
\* its text written, the second was not, and the cancellation error came back.
C18_Witness ==
    /\ rdPc = "returned"
    /\ rdRet = RetErr(ctxErr)
    /\ Len(uniqueFilePaths) = 2
    /\ statted = << uniqueFilePaths[1] >>
    /\ contentBuilder # ""

====
